---------------------------- MODULE Spec2Model ----------------------------
(***************************************************************************)
(* A model of keystoneauth/access.py: the create() factory, the two        *)
(* accessor classes AccessInfoV2 / AccessInfoV3, the lazily built service  *)
(* catalog and will_expire_soon().                                         *)
(*                                                                         *)
(* Python dicts are functions whose DOMAIN is the set of keys present, so  *)
(* that `k in d` is k \in DOMAIN d and d[k] on a missing key is a KeyError.*)
(* Python values returned to a caller are records of one shape (Value      *)
(* below); a raised exception is the value Raise(<exception class>).       *)
(***************************************************************************)
EXTENDS Integers, Sequences, FiniteSets, TLC

(***************************************************************************)
(* Python values                                                           *)
(***************************************************************************)
Val(type, s, n, off) == [type |-> type, s |-> s, n |-> n, off |-> off]

None == Val("None", "", 0, 0)
Str(x) == Val("str", x, 0, 0)
Bool(b) == Val("bool", "", IF b THEN 1 ELSE 0, 0)
True == Bool(TRUE)
False == Bool(FALSE)
\* an aware datetime: wall-clock seconds t in a zone off seconds east of UTC
DateTime(t, off) == Val("datetime", "", t, off)
\* an exception of class exc leaving the call
Raise(exc) == Val("raise", exc, 0, 0)
\* the id-th object returned by the catalog builder
Catalog(id) == Val("catalog", "", id, 0)
\* an accessor instance of class cls, as returned by create()
Instance(cls) == Val("instance", cls, 0, 0)

IsRaise(v) == v.type = "raise"

\* bool(v) for the values above: None, "" and False are falsy, objects truthy
Truthy(v) ==
    /\ v.type # "None"
    /\ ~(v.type = "str" /\ v.s = "")
    /\ ~(v.type = "bool" /\ v.n = 0)

\* a or b
Or(a, b) == IF Truthy(a) THEN a ELSE b

(***************************************************************************)
(* Python dicts                                                            *)
(***************************************************************************)
EmptyDict == [k \in {} |-> ""]

Has(d, k) == k \in DOMAIN d

\* d.get(k) for a string-valued key
Get(d, k) == IF Has(d, k) THEN Str(d[k]) ELSE None

\* the dicts that either lack key k or map it to a member of S
Opt(k, S) == {EmptyDict} \cup {k :> v : v \in S}

\* the dicts made of one dict of A and one of B (over disjoint keys)
Merge(A, B) == {a @@ b : a \in A, b \in B}


(***************************************************************************)
(* Bounds of the model                                                     *)
(***************************************************************************)
\* threads reading one accessor concurrently
NumThreads == 2
\* service_catalog reads each thread completes
MaxReads == 2

\* gap, in seconds, to determine whether the given token is about to expire
STALE_TOKEN_DURATION == 30

(***************************************************************************)
(* Timestamps.  An ISO 8601 string of a payload is modelled by what it     *)
(* denotes: wall-clock seconds t and the zone offset off it is written in. *)
(***************************************************************************)
ExpiryInstants == {20, 30, 60}
\* the readings of the clock, timeutils.utcnow(), in seconds
ClockInstants == {0, 10, 20, 30}
ZoneOffsets == {0, 3600}

\* the strings that denote instant i, one per zone
IsoStrings(I) == {[t |-> i + z, off |-> z] : i \in I, z \in ZoneOffsets}

\* timeutils.parse_isotime: the aware datetime an ISO 8601 string denotes
parse_isotime(str) == DateTime(str.t, str.off)

\* timeutils.normalize_time: an aware datetime as naive UTC seconds
normalize_time(dt) == dt.n - dt.off

(***************************************************************************)
(* Payloads.  Each family varies the keys one group of accessors reads and *)
(* keeps the rest of a well-formed token.                                  *)
(***************************************************************************)
IdNames == Merge(Opt("id", {"i1"}), Opt("name", {"n1"}))

\* older schema: access.token
V2TokenBase == [id |-> "tok2", expires |-> [t |-> 60, off |-> 0],
                issued_at |-> "2015", audit_ids |-> <<"a1">>]
V2ProjectTokens ==
    Merge(Merge(Opt("tenant", IdNames), Opt("tenantId", {"X"})), {V2TokenBase})
V2AuditTokens ==
    Merge(Opt("audit_ids", {<<>>, <<"a1">>, <<"a1", "a2">>}),
          {[id |-> "tok2", expires |-> [t |-> 60, off |-> 0]]})
V2TimeTokens ==
    Merge(Merge(Opt("expires", IsoStrings(ExpiryInstants)), Opt("issued_at", {"2015"})),
          {[audit_ids |-> <<"a1">>]})

\* older schema: access.user and access.trust
V2UserBase == [id |-> "u1", name |-> "alice"]
V2Users == Merge(Merge(Opt("tenantName", {"B"}), Opt("tenantId", {"Y"})), {V2UserBase})
V2Trusts == Opt("trust", Opt("id", {"t1"}))

V2Access ==
    \* project family: token and user vary, both may be missing
    Merge(Opt("token", V2ProjectTokens), Opt("user", V2Users))
    \cup
    \* audit, time and trust families
    Merge({[user |-> V2UserBase]},
          Opt("token", V2AuditTokens \cup V2TimeTokens))
    \cup
    Merge({[user |-> V2UserBase, token |-> V2TokenBase]}, V2Trusts)

BodiesV2 == {[access |-> a] : a \in V2Access}

\* newer schema: token.user
V3UserBase == [id |-> "u1", name |-> "alice"]
V3Users ==
    Merge(Merge(Opt("domain", IdNames), Opt("OS-FEDERATION", {[idp |-> "idp1"]})),
          {V3UserBase})
V3TokenBase == [expires_at |-> [t |-> 60, off |-> 0],
                issued_at |-> [t |-> 0, off |-> 0], audit_ids |-> <<"a1">>]
V3UserTokens == Merge(Opt("user", V3Users), {V3TokenBase})
V3AuditTokens ==
    Merge(Opt("audit_ids", {<<>>, <<"a1">>, <<"a1", "a2">>}),
          {[user |-> V3UserBase, expires_at |-> [t |-> 60, off |-> 0]]})
V3TimeTokens ==
    Merge(Merge(Opt("expires_at", IsoStrings(ExpiryInstants)),
                Opt("issued_at", IsoStrings({0}))),
          {[user |-> V3UserBase]})
V3ExtTokens ==
    Merge(Merge(Opt("catalog", {<<"svc">>}), Opt("OS-TRUST:trust", Opt("id", {"t1"}))),
          {[user |-> V3UserBase] @@ V3TokenBase})

V3Tokens == V3UserTokens \cup V3AuditTokens \cup V3TimeTokens \cup V3ExtTokens

BodiesV3 == {[token |-> k] : k \in V3Tokens}

\* a body with both top-level keys, and bodies with neither
BodyBoth == [token |-> [user |-> V3UserBase] @@ V3TokenBase,
             access |-> [user |-> V2UserBase, token |-> V2TokenBase]]
BodiesNeither == {EmptyDict, [error |-> [code |-> "401"]]}

Bodies == BodiesV2 \cup BodiesV3 \cup {BodyBoth} \cup BodiesNeither


(***************************************************************************)
(* create()                                                                *)
(*                                                                         *)
(* An argument that may be None is a record with a flag `given`; resp is a *)
(* response object with a JSON body and the X-Subject-Token header (None   *)
(* when the header is not set).  A response object is truthy.              *)
(***************************************************************************)
NoBody == [given |-> FALSE, val |-> EmptyDict]
GivenBody(b) == [given |-> TRUE, val |-> b]
NoResp == [given |-> FALSE, json |-> EmptyDict, header |-> None]
Resp(j, h) == [given |-> TRUE, json |-> j, header |-> h]

BodyArgs == {NoBody} \cup {GivenBody(b) : b \in Bodies}
RespJsons == {[token |-> [user |-> V3UserBase] @@ V3TokenBase],
              [access |-> [user |-> V2UserBase, token |-> V2TokenBase]],
              EmptyDict}
RespArgs == {NoResp} \cup {Resp(j, h) : j \in RespJsons, h \in {None, Str("hdr")}}
TokenArgs == {None, Str("tok")}

\* bool(body): None and the empty dict are falsy
BodyTruthy(body) == body.given /\ DOMAIN body.val # {}

\* lines 33-34: the body create() dispatches on
create_body(resp, body) ==
    IF resp.given /\ ~BodyTruthy(body) THEN GivenBody(resp.json) ELSE body

\* create() with the two membership tests in the other order
create_access_first(resp, body, auth_token) ==
    LET b == create_body(resp, body)
        fail(exc) == [res |-> Raise(exc), body |-> b, class |-> "",
                      data |-> EmptyDict, auth_token |-> None]
    IN  IF ~b.given THEN fail("TypeError")
        ELSE IF Has(b.val, "access") THEN
            [res |-> Instance("AccessInfoV2"), body |-> b, class |-> "AccessInfoV2",
             data |-> b.val, auth_token |-> auth_token]
        ELSE IF Has(b.val, "token") THEN
            [res |-> Instance("AccessInfoV3"), body |-> b, class |-> "AccessInfoV3",
             data |-> b.val,
             auth_token |-> IF resp.given /\ ~Truthy(auth_token)
                            THEN resp.header ELSE auth_token]
        ELSE fail("ValueError")

\* lines 36-44: what create() returns (res) and the accessor it constructs
create(resp, body, auth_token) ==
    LET b == create_body(resp, body)
        fail(exc) == [res |-> Raise(exc), body |-> b, class |-> "",
                      data |-> EmptyDict, auth_token |-> None]
    IN  IF ~b.given THEN fail("TypeError")
        ELSE IF Has(b.val, "token") THEN
            [res |-> Instance("AccessInfoV3"), body |-> b, class |-> "AccessInfoV3",
             data |-> b.val,
             auth_token |-> IF resp.given /\ ~Truthy(auth_token)
                            THEN resp.header ELSE auth_token]
        ELSE IF Has(b.val, "access") THEN
            [res |-> Instance("AccessInfoV2"), body |-> b, class |-> "AccessInfoV2",
             data |-> b.val, auth_token |-> auth_token]
        ELSE fail("ValueError")

(***************************************************************************)
(* Accessors.  Each operator is one property, applied to the accessor's    *)
(* _data (d) and, where read, its _auth_token.                             *)
(***************************************************************************)
\* the decorator left off: the KeyError reaches the caller
missingproperty_off(v) == v

\* the decorator: a KeyError leaving f becomes None, anything else passes
missingproperty(v) == IF v = Raise("KeyError") THEN None ELSE v

\* list[i] (0-based) inside try/except IndexError: return None
IndexOrNone(list, i) == IF i + 1 <= Len(list) THEN Str(list[i + 1]) ELSE None

\* AccessInfoV2._token is a missingproperty: None when access.token is missing
V2HasToken(d) == Has(d.access, "token")
\* AccessInfoV2._user is a plain property: KeyError when access.user is missing
V2HasUser(d) == Has(d.access, "user")

\* project_name / project_id: key is "name" / "id", userKey "tenantName" / "tenantId"
V2_project(d, key, userKey) ==
    IF ~V2HasToken(d) THEN Raise("TypeError")            \* None['tenant']
    ELSE IF Has(d.access.token, "tenant")
         THEN Get(d.access.token.tenant, key)            \* else: tenant_dict.get(key)
    ELSE IF V2HasUser(d) /\ Has(d.access.user, userKey)
         THEN Str(d.access.user[userKey])
    ELSE IF Has(d.access.token, "tenantId")
         THEN Str(d.access.token.tenantId)
    ELSE None                                            \* falls off the end

V2_project_name(d) == V2_project(d, "name", "tenantName")
V2_project_id(d) == V2_project(d, "id", "tenantId")

\* AccessInfoV2._trust is a plain property: KeyError when access.trust is missing
V2HasTrust(d) == Has(d.access, "trust")

\* bool(self._trust), nothing catches the KeyError
V2_trust_scoped(d) ==
    IF ~V2HasTrust(d) THEN Raise("KeyError")
    ELSE Bool(DOMAIN d.access.trust # {})

V2_audit(d, i) ==
    IF ~V2HasToken(d) THEN Raise("AttributeError")       \* None.get
    ELSE IndexOrNone(IF Has(d.access.token, "audit_ids")
                     THEN d.access.token.audit_ids ELSE <<>>, i)

V2_audit_id(d) == V2_audit(d, 0)
V2_audit_chain_id(d) == V2_audit(d, 1)

V2_expires(d) ==
    missingproperty(
        IF ~V2HasToken(d) THEN Raise("AttributeError")   \* None.get
        ELSE IF ~Has(d.access.token, "expires")
             THEN Raise("ValueError")                    \* parse_isotime(None)
        ELSE parse_isotime(d.access.token.expires))

V2_issued(d) ==
    missingproperty(
        IF ~V2HasToken(d) THEN Raise("TypeError")
        ELSE IF ~Has(d.access.token, "issued_at") THEN Raise("KeyError")
        ELSE Str(d.access.token.issued_at))

V2_auth_token(d, set_token) ==
    missingproperty(
        IF Truthy(set_token) THEN set_token
        ELSE IF ~Has(d.access, "token") \/ ~Has(d.access.token, "id")
             THEN Raise("KeyError")
        ELSE Str(d.access.token.id))

\* 'serviceCatalog' in self: the accessor is no container
V2_has_service_catalog(d) == Raise("TypeError")

\* AccessInfoV3._user is a plain property
V3HasUser(d) == Has(d, "token") /\ Has(d.token, "user")

V3_is_federated(d) ==
    IF ~V3HasUser(d) THEN Raise("KeyError")
    ELSE Bool(Has(d.token.user, "OS-FEDERATION"))

\* the except clause returning None whether federated or not
V3_user_domain_soft(d, key) ==
    IF V3HasUser(d) /\ Has(d.token.user, "domain") /\ Has(d.token.user.domain, key)
    THEN Str(d.token.user.domain[key])
    ELSE IF IsRaise(V3_is_federated(d)) THEN V3_is_federated(d)
    ELSE None

\* user_domain_id / user_domain_name: key is "id" / "name"
V3_user_domain(d, key) ==
    IF V3HasUser(d) /\ Has(d.token.user, "domain") /\ Has(d.token.user.domain, key)
    THEN Str(d.token.user.domain[key])
    ELSE \* except KeyError:
         IF IsRaise(V3_is_federated(d)) THEN V3_is_federated(d)
         ELSE IF Truthy(V3_is_federated(d)) THEN None
         ELSE Raise("KeyError")                          \* raise

V3_user_domain_id(d) == V3_user_domain(d, "id")
V3_user_domain_name(d) == V3_user_domain(d, "name")

\* expires / issued: key is "expires_at" / "issued_at"
V3_time(d, key) ==
    missingproperty(
        IF ~Has(d, "token") \/ ~Has(d.token, key) THEN Raise("KeyError")
        ELSE parse_isotime(d.token[key]))

V3_expires(d) == V3_time(d, "expires_at")
V3_issued(d) == V3_time(d, "issued_at")

V3_audit(d, i) ==
    missingproperty(
        IF ~Has(d, "token") \/ ~Has(d.token, "audit_ids") THEN Raise("KeyError")
        ELSE IndexOrNone(d.token.audit_ids, i))

V3_audit_id(d) == V3_audit(d, 0)
V3_audit_chain_id(d) == V3_audit(d, 1)

V3_trust_scoped(d) ==
    IF ~Has(d, "token") \/ ~Has(d.token, "OS-TRUST:trust") THEN False
    ELSE Bool(DOMAIN d.token["OS-TRUST:trust"] # {})

V3_has_service_catalog(d) ==
    IF ~Has(d, "token") THEN Raise("KeyError") ELSE Bool(Has(d.token, "catalog"))


(***************************************************************************)
(* The properties by name, dispatched on the accessor's class              *)
(***************************************************************************)
Properties == {"auth_token", "expires", "issued", "user_domain_id", "user_domain_name",
               "project_name", "project_id", "trust_scoped", "is_federated",
               "audit_id", "audit_chain_id", "initial_audit_id",
               "has_service_catalog"}

\* the properties of the model that the class implements
PropertiesOf(cls) ==
    IF cls = "AccessInfoV2" THEN Properties
    ELSE Properties \ {"project_name", "project_id"}

audit_id(cls, d) == IF cls = "AccessInfoV2" THEN V2_audit_id(d) ELSE V3_audit_id(d)

audit_chain_id(cls, d) ==
    IF cls = "AccessInfoV2" THEN V2_audit_chain_id(d) ELSE V3_audit_chain_id(d)

\* self.audit_id or self.audit_chain_id
initial_audit_id_swapped(cls, d) ==
    IF IsRaise(audit_id(cls, d)) THEN audit_id(cls, d)
    ELSE Or(audit_id(cls, d), audit_chain_id(cls, d))

\* self.audit_chain_id or self.audit_id
initial_audit_id(cls, d) ==
    IF IsRaise(audit_chain_id(cls, d)) THEN audit_chain_id(cls, d)
    ELSE Or(audit_chain_id(cls, d), audit_id(cls, d))

expires(cls, d) == IF cls = "AccessInfoV2" THEN V2_expires(d) ELSE V3_expires(d)

ReadProperty(op, cls, d, tok) ==
    CASE op = "auth_token" ->
            IF cls = "AccessInfoV2" THEN V2_auth_token(d, tok) ELSE tok
      [] op = "expires" -> expires(cls, d)
      [] op = "issued" -> IF cls = "AccessInfoV2" THEN V2_issued(d) ELSE V3_issued(d)
      [] op = "user_domain_id" ->
            IF cls = "AccessInfoV2" THEN None ELSE V3_user_domain_id(d)
      [] op = "user_domain_name" ->
            IF cls = "AccessInfoV2" THEN None ELSE V3_user_domain_name(d)
      [] op = "project_name" -> V2_project_name(d)
      [] op = "project_id" -> V2_project_id(d)
      [] op = "trust_scoped" ->
            IF cls = "AccessInfoV2" THEN V2_trust_scoped(d) ELSE V3_trust_scoped(d)
      [] op = "is_federated" ->
            IF cls = "AccessInfoV2" THEN False ELSE V3_is_federated(d)
      [] op = "audit_id" -> audit_id(cls, d)
      [] op = "audit_chain_id" -> audit_chain_id(cls, d)
      [] op = "initial_audit_id" -> initial_audit_id(cls, d)
      [] op = "has_service_catalog" ->
            IF cls = "AccessInfoV2" THEN V2_has_service_catalog(d)
            ELSE V3_has_service_catalog(d)

(***************************************************************************)
(* will_expire_soon                                                        *)
(***************************************************************************)
Seconds(n) == Val("int", "", n, 0)

\* the stale_duration arguments: not given, 0 and 10 seconds
StaleArgs == {None, Seconds(0), Seconds(10)}

\* stale_duration or STALE_TOKEN_DURATION: a window of 0 becomes the default
stale_or_default_falsy(stale_duration) ==
    IF stale_duration = None \/ stale_duration.n = 0
    THEN STALE_TOKEN_DURATION ELSE stale_duration.n

\* lines 88-89
stale_or_default(stale_duration) ==
    IF stale_duration = None THEN STALE_TOKEN_DURATION ELSE stale_duration.n

\* line 95
before(norm_expires, soon) == norm_expires < soon

\* utcnow is the reading of the clock taken on line 93
will_expire_soon(cls, d, stale_duration, utcnow) ==
    IF IsRaise(expires(cls, d)) THEN expires(cls, d)
    ELSE IF expires(cls, d) = None THEN Raise("AttributeError") \* None.utcoffset()
    ELSE Bool(before(normalize_time(expires(cls, d)),
                     utcnow + stale_or_default(stale_duration)))

(***************************************************************************)
(* State                                                                   *)
(***************************************************************************)
VARIABLES
    threads,               \* the threads that use the accessor
    phase,                 \* "new", then "ready" or "failed" once create() ran
    created,               \* the create() call: the body dispatched on, the result
    self_class,            \* the accessor's class
    self_data,             \* self._data
    self_auth_token,       \* self._auth_token
    self_service_catalog,  \* self._service_catalog
    builds,                \* calls of the catalog builder, from_token, so far
    pc,                    \* per thread: its place inside service_catalog
    built,                 \* per thread: what from_token returned, not yet stored
    got,                   \* per thread: what its last service_catalog read returned
    reads,                 \* per thread: service_catalog reads completed
    last                   \* the last property / will_expire_soon call and its result

vars == <<threads, phase, created, self_class, self_data, self_auth_token,
          self_service_catalog, builds, pc, built, got, reads, last>>

accessor == <<self_class, self_data, self_auth_token, self_service_catalog>>
catalog_reads == <<builds, pc, built, got, reads>>

NoCall == [op |-> "", arg |-> None, at |-> 0, res |-> None]

InitFor(T) ==
    /\ threads = T
    /\ phase = "new"
    /\ created = [body |-> NoBody, res |-> None]
    /\ self_class = ""
    /\ self_data = EmptyDict
    /\ self_auth_token = None
    /\ self_service_catalog = None
    /\ builds = 0
    /\ pc = [t \in T |-> "idle"]
    /\ built = [t \in T |-> None]
    /\ got = [t \in T |-> None]
    /\ reads = [t \in T |-> 0]
    /\ last = NoCall

\* a single caller
Init == InitFor({1})
\* NumThreads threads share the accessor
InitConcurrent == InitFor(1 .. NumThreads)

(***************************************************************************)
(* Actions                                                                 *)
(***************************************************************************)
\* create(resp, body, auth_token), and AccessInfo.__init__ when it succeeds
Create ==
    /\ phase = "new"
    /\ \E resp \in RespArgs, body \in BodyArgs, auth_token \in TokenArgs :
        LET r == create(resp, body, auth_token) IN
        /\ phase' = IF IsRaise(r.res) THEN "failed" ELSE "ready"
        /\ created' = [body |-> r.body, res |-> r.res]
        /\ self_class' = r.class
        /\ self_data' = r.data
        /\ self_auth_token' = r.auth_token
        /\ self_service_catalog' = None
    /\ UNCHANGED <<threads, catalog_reads, last>>

\* thread t reads one property
Read(t) ==
    /\ phase = "ready"
    /\ pc[t] = "idle"
    /\ \E op \in PropertiesOf(self_class) :
        last' = [op |-> op, arg |-> None, at |-> 0,
                 res |-> ReadProperty(op, self_class, self_data, self_auth_token)]
    /\ UNCHANGED <<threads, phase, created, accessor, catalog_reads>>

\* thread t calls will_expire_soon(stale_duration) while the clock reads utcnow
WillExpireSoon(t) ==
    /\ phase = "ready"
    /\ pc[t] = "idle"
    /\ \E stale_duration \in StaleArgs, utcnow \in ClockInstants :
        last' = [op |-> "will_expire_soon", arg |-> stale_duration, at |-> utcnow,
                 res |-> will_expire_soon(self_class, self_data, stale_duration, utcnow)]
    /\ UNCHANGED <<threads, phase, created, accessor, catalog_reads>>

\* no test: every read builds
needs_build_always(cache) == TRUE

\* line 75: the test that decides whether the catalog is built
needs_build(cache) == ~Truthy(cache)

\* thread t enters service_catalog and tests the cache (line 75)
CatalogTest(t) ==
    /\ phase = "ready"
    /\ pc[t] = "idle"
    /\ reads[t] < MaxReads
    /\ pc' = [pc EXCEPT ![t] = IF needs_build(self_service_catalog)
                               THEN "build" ELSE "return"]
    /\ UNCHANGED <<threads, phase, created, accessor, builds, built, got, reads, last>>

\* thread t calls the builder, which returns a new catalog (lines 76-77)
CatalogBuild(t) ==
    /\ pc[t] = "build"
    /\ builds' = builds + 1
    /\ built' = [built EXCEPT ![t] = Catalog(builds + 1)]
    /\ pc' = [pc EXCEPT ![t] = "store"]
    /\ UNCHANGED <<threads, phase, created, accessor, got, reads, last>>

\* thread t stores what the builder returned (line 76)
CatalogStore(t) ==
    /\ pc[t] = "store"
    /\ self_service_catalog' = built[t]
    /\ built' = [built EXCEPT ![t] = None]
    /\ pc' = [pc EXCEPT ![t] = "return"]
    /\ UNCHANGED <<threads, phase, created, self_class, self_data, self_auth_token,
                   builds, got, reads, last>>

\* thread t returns self._service_catalog (line 79)
CatalogReturn(t) ==
    /\ pc[t] = "return"
    /\ got' = [got EXCEPT ![t] = self_service_catalog]
    /\ reads' = [reads EXCEPT ![t] = reads[t] + 1]
    /\ pc' = [pc EXCEPT ![t] = "idle"]
    /\ UNCHANGED <<threads, phase, created, accessor, builds, built, last>>

\* every operation of the accessor
Next ==
    \/ Create
    \/ \E t \in threads : Read(t)
    \/ \E t \in threads : WillExpireSoon(t)
    \/ \E t \in threads : CatalogTest(t)
    \/ \E t \in threads : CatalogBuild(t)
    \/ \E t \in threads : CatalogStore(t)
    \/ \E t \in threads : CatalogReturn(t)

\* the operations that threads interleave: service_catalog is the one that writes
NextConcurrent ==
    \/ Create
    \/ \E t \in threads : CatalogTest(t)
    \/ \E t \in threads : CatalogBuild(t)
    \/ \E t \in threads : CatalogStore(t)
    \/ \E t \in threads : CatalogReturn(t)

Spec == Init /\ [][Next]_vars
SpecConcurrent == InitConcurrent /\ [][NextConcurrent]_vars


(***************************************************************************)
(* Properties                                                              *)
(***************************************************************************)
IsV2 == phase = "ready" /\ self_class = "AccessInfoV2"
IsV3 == phase = "ready" /\ self_class = "AccessInfoV3"

\* the catalogs that service_catalog reads have returned
Returned == {got[t] : t \in {u \in threads : reads[u] > 0}}

\* C1: when threads read service_catalog concurrently, the builder is called
\* exactly once and every reader gets the same catalog instance.
C1_SingleFlight ==
    /\ builds <= 1
    /\ Cardinality(Returned) <= 1
    /\ Returned # {} => builds = 1

\* C2: for a single caller the builder is called exactly once, on the first
\* service_catalog read; every read returns the catalog of that call, and the
\* filled cache is never rebuilt or reset.
C2_BuiltOnceForSingleCaller ==
    /\ builds <= 1
    /\ (reads[1] = 0 /\ pc[1] = "idle") => (builds = 0 /\ self_service_catalog = None)
    /\ builds = 1 /\ pc[1] # "store" => self_service_catalog = Catalog(1)
    /\ reads[1] >= 1 => (builds = 1 /\ got[1] = Catalog(1))

\* two reads done, one build
C2_Witness == reads[1] = 2 /\ builds = 1 /\ got[1] = Catalog(1)


\* C3: create() returns an AccessInfoV3 when the payload has the key 'token', an
\* AccessInfoV2 when it has 'access' and not 'token', and fails with the
\* unrecognized-response ValueError, constructing nothing, when it has neither.
\* The payload is the body create() is given, or the response's JSON body when
\* no (non-empty) body is given.
C3_CreateDispatch ==
    (phase # "new" /\ created.body.given) =>
        LET payload == created.body.val IN
        /\ Has(payload, "token") =>
              /\ created.res = Instance("AccessInfoV3")
              /\ self_class = "AccessInfoV3" /\ self_data = payload
        /\ (Has(payload, "access") /\ ~Has(payload, "token")) =>
              /\ created.res = Instance("AccessInfoV2")
              /\ self_class = "AccessInfoV2" /\ self_data = payload
        /\ (~Has(payload, "access") /\ ~Has(payload, "token")) =>
              /\ created.res = Raise("ValueError")
              /\ phase = "failed" /\ self_class = ""

\* a payload with neither key was refused
C3_Witness ==
    /\ phase = "failed" /\ created.body.given
    /\ DOMAIN created.body.val = {"error"}
    /\ created.res = Raise("ValueError")

\* the first present value of token.tenant[key], user[userKey], token.tenantId
FirstPresent(d, key, userKey) ==
    IF V2HasToken(d) /\ Has(d.access.token, "tenant")
       /\ Has(d.access.token.tenant, key)
    THEN Str(d.access.token.tenant[key])
    ELSE IF V2HasUser(d) /\ Has(d.access.user, userKey)
    THEN Str(d.access.user[userKey])
    ELSE IF V2HasToken(d) /\ Has(d.access.token, "tenantId")
    THEN Str(d.access.token.tenantId)
    ELSE None

\* C4: on an AccessInfoV2, project_name is the first present of
\* token.tenant.name, user.tenantName, token.tenantId, and None only when none
\* is present; project_id likewise with token.tenant.id, user.tenantId,
\* token.tenantId.
C4_ProjectFallback ==
    /\ (IsV2 /\ last.op = "project_name") =>
          last.res = FirstPresent(self_data, "name", "tenantName")
    /\ (IsV2 /\ last.op = "project_id") =>
          last.res = FirstPresent(self_data, "id", "tenantId")

\* the user subtree of an AccessInfoV3 lacks domain[key]
V3DomainKeyMissing(key) ==
    ~(Has(self_data.token.user, "domain") /\ Has(self_data.token.user.domain, key))

V3Federated == Has(self_data.token.user, "OS-FEDERATION")

C5_UserDomain(op, key) ==
    (IsV3 /\ V3HasUser(self_data) /\ last.op = op) =>
        /\ ~V3DomainKeyMissing(key) => last.res = Str(self_data.token.user.domain[key])
        /\ (V3DomainKeyMissing(key) /\ V3Federated) => last.res = None
        /\ (V3DomainKeyMissing(key) /\ ~V3Federated) => last.res = Raise("KeyError")

\* C5: on an AccessInfoV3 whose user lacks domain.id (domain.name), user_domain_id
\* (user_domain_name) is None when the user carries 'OS-FEDERATION' and raises
\* KeyError when it does not; a present value is returned, federated or not.
C5_UserDomainFederation ==
    /\ C5_UserDomain("user_domain_id", "id")
    /\ C5_UserDomain("user_domain_name", "name")

\* a federated user without domain.id read user_domain_id and got None
C5_Witness ==
    /\ IsV3 /\ V3HasUser(self_data) /\ last.op = "user_domain_id"
    /\ V3DomainKeyMissing("id") /\ V3Federated
    /\ last.res = None

\* the accessor's payload has the token subtree that holds audit_ids
HasAuditToken ==
    \/ IsV3
    \/ IsV2 /\ V2HasToken(self_data)

\* token.audit_ids, the empty list when the key is missing
AuditIds ==
    LET token == IF IsV2 THEN self_data.access.token ELSE self_data.token
    IN  IF Has(token, "audit_ids") THEN token.audit_ids ELSE <<>>

\* C6: for both classes and audit_ids of length 0, 1 or 2 (or missing), audit_id is
\* element 0 or None, audit_chain_id is element 1 or None, initial_audit_id is
\* audit_chain_id when that is not None and audit_id otherwise; none raises.
C6_AuditIds ==
    HasAuditToken =>
        LET first == IF Len(AuditIds) >= 1 THEN Str(AuditIds[1]) ELSE None
            second == IF Len(AuditIds) >= 2 THEN Str(AuditIds[2]) ELSE None
        IN  /\ last.op = "audit_id" => last.res = first
            /\ last.op = "audit_chain_id" => last.res = second
            /\ last.op = "initial_audit_id" =>
                  last.res = (IF second # None THEN second ELSE first)

\* a token with two audit ids read initial_audit_id and got the second
C6_Witness ==
    /\ HasAuditToken /\ Len(AuditIds) = 2
    /\ last.op = "initial_audit_id" /\ last.res = Str(AuditIds[2])


\* the payload's expiry string: token.expires (V2) or token.expires_at (V3)
HasExpiry ==
    \/ IsV2 /\ V2HasToken(self_data) /\ Has(self_data.access.token, "expires")
    \/ IsV3 /\ Has(self_data.token, "expires_at")

ExpiryString ==
    IF IsV2 THEN self_data.access.token.expires ELSE self_data.token.expires_at

\* the instant, in UTC seconds, that the expiry string denotes
ExpiryInstant == ExpiryString.t - ExpiryString.off

\* the window of the last will_expire_soon call: 30 unless one was passed
Window == IF last.arg = None THEN 30 ELSE last.arg.n

\* C7: will_expire_soon(w) is true iff expires is strictly earlier than the
\* current time + w seconds, w being 30 when no window is passed; a passed
\* window of 0 is used as 0.
C7_WillExpireSoon ==
    (HasExpiry /\ last.op = "will_expire_soon") =>
        last.res = Bool(ExpiryInstant < last.at + Window)

\* a window of 0 was passed 10 seconds before the expiry: not soon
C7_Witness ==
    /\ HasExpiry /\ last.op = "will_expire_soon"
    /\ last.arg = Seconds(0) /\ ExpiryInstant = last.at + 10
    /\ last.res = False

\* C8: on an AccessInfoV2, trust_scoped is true iff access.trust is present and
\* non-empty; without the access.trust key it is false and does not raise.
C8_TrustScoped ==
    (IsV2 /\ last.op = "trust_scoped") =>
        last.res = Bool(Has(self_data.access, "trust")
                        /\ DOMAIN self_data.access.trust # {})

\* the key expires / issued parse
TimeKey(op) == IF op = "expires" THEN "expires_at" ELSE "issued_at"

\* C9: on an AccessInfoV3, expires (issued) is a hard field: reading it when
\* token.expires_at (token.issued_at) is missing raises a lookup error.
C9_TimesAreHard ==
    (IsV3 /\ last.op \in {"expires", "issued"}
          /\ ~Has(self_data.token, TimeKey(last.op))) =>
        IsRaise(last.res)

\* C9, amended: on an AccessInfoV3, expires (issued) is a soft field: reading it
\* when token.expires_at (token.issued_at) is missing yields None and raises
\* nothing; when the key is present the parsed timestamp is returned.
C9_TimesAreSoft ==
    (IsV3 /\ last.op \in {"expires", "issued"}) =>
        IF Has(self_data.token, TimeKey(last.op))
        THEN last.res = DateTime(self_data.token[TimeKey(last.op)].t,
                                 self_data.token[TimeKey(last.op)].off)
        ELSE last.res = None

\* expires was read from a token without expires_at and came back None
C9_Witness ==
    /\ IsV3 /\ last.op = "expires" /\ ~Has(self_data.token, "expires_at")
    /\ last.res = None

\* C10: once constructed, reads leave the payload, the stored bearer token and
\* the class of the accessor unchanged; only the catalog cache changes, and
\* only from empty to filled, inside a service_catalog read.
C10_ReadsOnlyFillCache ==
    [][phase = "ready" =>
         /\ self_data' = self_data
         /\ self_auth_token' = self_auth_token
         /\ self_class' = self_class
         /\ self_service_catalog' # self_service_catalog =>
               /\ self_service_catalog = None
               /\ self_service_catalog' # None
               /\ \E t \in threads : pc[t] = "store" /\ pc'[t] = "return"]_vars

=============================================================================
